---- MODULE Spec2Model ----
(***************************************************************************)
(* A model of utf.hpp: the per-encoding traits (read_length, write_length, *)
(* validate, decode, encode) for UTF-8, UTF-16 and UTF-32, and the         *)
(* stringview operations built from them (validate, codepoints,            *)
(* codeunits<EDest>, to<EDest>), one action per loop iteration.            *)
(*                                                                         *)
(* Representation of C++ values.  TLC integers are 32-bit signed, so a     *)
(* char32_t value v is held as v when v < 2^31 and as v - 2^32 otherwise   *)
(* (the two's-complement view of the same 32 bits).  A char is held as the *)
(* value the build gives it: 0..255 when char is unsigned, -128..127 when  *)
(* it is signed.  Buffers hold raw code units: 0..255, 0..65535, and the   *)
(* 32-bit view just described.                                             *)
(***************************************************************************)
EXTENDS Integers, Sequences, FiniteSets, TLC

VARIABLES
    charSigned, \* whether the build's plain char is signed (implementation-defined)
    enc,        \* E of stringview<E>
    buf,        \* the code units of the window [first, last)
    op,         \* the member function being executed
    edest,      \* EDest of codeunits<EDest> / to<EDest>
    pc,         \* "off", "idle", "loop", "done", "crashed"
    cur,        \* the traversal cursor, as an offset from first
    iters,      \* loop iterations started so far
    acc,        \* cps / cus, the running count
    out,        \* the code units appended to the sink by to<EDest>
    result,     \* the value returned
    maxRead,    \* one past the highest window offset read so far
    ub,         \* undefined behaviour has been executed
    src,        \* the original window, kept when to<> is applied to its own output
    back,       \* the view is over the output of a previous to<>
    counted,    \* what codeunits<EDest>() returned before to<EDest>, -1 when not called
    cp,         \* traits only: the codepoint handed to write_length / encode
    tE,         \* traits only: the encoding
    tpc,        \* traits only: "off", "start", "measured", "encoded", "decoded", "crashed"
    tlen,       \* traits only: write_length(cp)
    tunits,     \* traits only: the code units encode wrote
    tdec        \* traits only: the codepoint decode returned

vars == <<charSigned, enc, buf, op, edest, pc, cur, iters, acc, out, result,
          maxRead, ub, src, back, counted, cp, tE, tpc, tlen, tunits, tdec>>

viewVars == <<enc, buf, op, edest, pc, cur, iters, acc, out, result,
              maxRead, ub, src, back, counted>>

traitVars == <<cp, tE, tpc, tlen, tunits, tdec>>

Encodings == {"utf8", "utf16", "utf32"}

-----------------------------------------------------------------------------
(* C++ integer operators *)

RECURSIVE BitAndNat(_, _)
BitAndNat(a, b) ==
    IF a = 0 \/ b = 0 THEN 0
    ELSE (a % 2) * (b % 2) + 2 * BitAndNat(a \div 2, b \div 2)

\* a & m for a mask 0 <= m < 2^30; a may be negative (two's complement)
BitAnd(a, m) == BitAndNat(a % (2^30), m)

\* a | b for a, b >= 0
BitOr(a, b) == a + b - BitAndNat(a, b)

\* a >> n for a >= 0
Shr(a, n) == a \div (2^n)

\* a << n, no bit shifted out
Shl(a, n) == a * (2^n)

\* unsigned 32-bit c < k, for a constant 0 <= k < 2^31
ULess(c, k) == c >= 0 /\ c < k

\* (unsigned char) c
UChar(c) == c % 256

\* a stored byte read through a plain char lvalue
AsChar(b, signed) == IF signed /\ b >= 128 THEN b - 256 ELSE b

-----------------------------------------------------------------------------
(* validate_codepoint *)

validate_codepoint(c) ==
    IF ULess(c, \hd800) THEN TRUE
    ELSE IF ULess(c, \he000) THEN FALSE
    ELSE IF ULess(c, \h110000) THEN TRUE
    ELSE FALSE

-----------------------------------------------------------------------------
(* utf_traits<utf8> *)

\* a variant that takes a three-byte lead for a four-byte one
utf8_read_length_long(c) ==
    IF BitAnd(c, \h80) = \h00 THEN 1
    ELSE IF BitAnd(c, \he0) = \hc0 THEN 2
    ELSE IF BitAnd(c, \hf0) = \he0 THEN 4
    ELSE IF BitAnd(c, \hf8) = \hf0 THEN 4
    ELSE 1

\* a variant that takes a three-byte lead for a two-byte one
utf8_read_length_short(c) ==
    IF BitAnd(c, \h80) = \h00 THEN 1
    ELSE IF BitAnd(c, \he0) = \hc0 THEN 2
    ELSE IF BitAnd(c, \hf0) = \he0 THEN 2
    ELSE IF BitAnd(c, \hf8) = \hf0 THEN 4
    ELSE 1

utf8_read_length(c) ==
    IF BitAnd(c, \h80) = \h00 THEN 1
    ELSE IF BitAnd(c, \he0) = \hc0 THEN 2
    ELSE IF BitAnd(c, \hf0) = \he0 THEN 3
    ELSE IF BitAnd(c, \hf8) = \hf0 THEN 4
    ELSE 1

utf8_write_length(c) ==
    IF c >= 0 /\ c <= \h7f THEN 1
    ELSE IF ULess(c, \h0800) THEN 2
    ELSE IF ULess(c, \hd800) THEN 3
    ELSE IF ULess(c, \he000) THEN 0
    ELSE IF ULess(c, \h010000) THEN 3
    ELSE IF ULess(c, \h110000) THEN 4
    ELSE 0

\* the first switch: the lead byte's high bits must match the length
utf8_lead_ok(len, lead) ==
    CASE len = 1 -> BitAnd(lead, \h80) = \h00
      [] len = 2 -> BitAnd(lead, \he0) = \hc0
      [] len = 3 -> BitAnd(lead, \hf0) = \he0
      [] len = 4 -> BitAnd(lead, \hf8) = \hf0
      [] OTHER -> FALSE

\* the for loop: every trailing byte is 10xxxxxx
utf8_trail_ok(run) ==
    \A i \in 2..Len(run) : BitAnd(UChar(run[i]), \hc0) = \h80

\* a variant without the four-byte overlong check
utf8_not_overlong_no4(run) ==
    CASE Len(run) = 2 -> ~(UChar(run[1]) <= \hc1)
      [] Len(run) = 3 -> ~(UChar(run[1]) = \he0)
      [] OTHER -> TRUE

\* the second switch: check for overlong encodings
utf8_not_overlong(run) ==
    CASE Len(run) = 2 -> ~(UChar(run[1]) <= \hc1)
      [] Len(run) = 3 -> ~(UChar(run[1]) = \he0)
      [] Len(run) = 4 -> ~(UChar(run[1]) = \hf0 /\ UChar(run[2]) < \h90)
      [] OTHER -> TRUE

\* run holds the values of first[0 .. last - first - 1]
utf8_validate(run) ==
    /\ utf8_lead_ok(Len(run), UChar(run[1]))
    /\ utf8_trail_ok(run)
    /\ utf8_not_overlong(run)

\* the loop "for (i = len; i != 1; --i)": res[1 .. i-1] and the shifted c
RECURSIVE utf8_encode_loop(_, _)
utf8_encode_loop(c, i) ==
    IF i = 1 THEN [c |-> c, res |-> <<>>]
    ELSE LET low == UChar(BitOr(BitAnd(c, \h3f), \h80))
             r   == utf8_encode_loop(Shr(c, 6), i - 1)
         IN  [c |-> r.c, res |-> Append(r.res, low)]

\* a variant that writes the lead byte of a 3-byte sequence with the 2-byte marker
utf8_encode_lead_slip(len, c) ==
    CASE len = 1 -> UChar(c)
      [] len = 2 -> UChar(BitOr(c, \hc0))
      [] len = 3 -> UChar(BitOr(c, \hc0))
      [] len = 4 -> UChar(BitOr(c, \hf0))

\* the switch on the first byte
utf8_encode_lead(len, c) ==
    CASE len = 1 -> UChar(c)
      [] len = 2 -> UChar(BitOr(c, \hc0))
      [] len = 3 -> UChar(BitOr(c, \he0))
      [] len = 4 -> UChar(BitOr(c, \hf0))

\* the code units written, for write_length(c) /= 0
utf8_encode(c) ==
    LET len == utf8_write_length(c)
        r   == utf8_encode_loop(c, len)
    IN  <<utf8_encode_lead(len, r.c)>> \o r.res

\* the for loop of decode over c[1 .. len-1]
RECURSIVE utf8_decode_loop(_, _, _, _)
utf8_decode_loop(res, s, i, len) ==
    IF i > len THEN res
    ELSE utf8_decode_loop(BitOr(Shl(res, 6), BitAnd(s[i], \h3f)), s, i + 1, len)

\* a variant that masks the 2-byte lead with 0x0f
utf8_decode_lead_slip(len, c) ==
    CASE len = 1 -> c
      [] len = 2 -> BitAnd(c, \h0f)
      [] len = 3 -> BitAnd(c, \h0f)
      [] len = 4 -> BitAnd(c, \h07)

\* the switch on the first byte
utf8_decode_lead(len, c) ==
    CASE len = 1 -> c
      [] len = 2 -> BitAnd(c, \h1f)
      [] len = 3 -> BitAnd(c, \h0f)
      [] len = 4 -> BitAnd(c, \h07)

\* s holds the values of c[0], c[1], ... (at least read_length(c[0]) of them)
utf8_decode(s) ==
    LET len == utf8_read_length(s[1])
    IN  IF len = 1 THEN utf8_decode_lead(len, s[1])
        ELSE utf8_decode_loop(utf8_decode_lead(len, s[1]), s, 2, len)

-----------------------------------------------------------------------------
(* utf_traits<utf16> *)

utf16_read_length(c) ==
    IF c < \hd800 THEN 1
    ELSE IF c < \hdc00 THEN 2
    ELSE IF c < \h010000 THEN 1
    ELSE 1

\* a variant that sizes the supplementary planes as one unit
utf16_write_length_flat(c) ==
    IF ULess(c, \hd800) THEN 1
    ELSE IF ULess(c, \he000) THEN 0
    ELSE IF ULess(c, \h110000) THEN 1
    ELSE 0

utf16_write_length(c) ==
    IF ULess(c, \hd800) THEN 1
    ELSE IF ULess(c, \he000) THEN 0
    ELSE IF ULess(c, \h010000) THEN 1
    ELSE IF ULess(c, \h110000) THEN 2
    ELSE 0

utf16_validate(run) ==
    CASE Len(run) = 1 -> ~(run[1] >= \hd800 /\ run[1] < \he000)
      [] Len(run) = 2 ->
            /\ ~(run[1] < \hd800 \/ run[1] >= \hdc00)
            /\ ~(run[2] < \hdc00 \/ run[2] >= \he000)
      [] OTHER -> FALSE

\* a variant that never writes a surrogate pair
utf16_encode_single(c) == <<c % 65536>>

\* the code units written.  tmp = c - 0x10000 is computed modulo 2^32 in the
\* code; only its bits 0..25 reach the two 16-bit results, so it is kept modulo
\* 2^26 here, which TLC's integers can hold.
utf16_encode(c) ==
    IF utf16_write_length(c) = 1 THEN <<c % 65536>>
    ELSE LET tmp == ((c % (2^26)) - \h10000) % (2^26)
         IN  << (Shr(tmp, 10) + \hd800) % 65536,
                (BitAnd(tmp, \h03ff) + \hdc00) % 65536 >>

\* a variant that leaves out the final + 0x10000
utf16_decode_no_offset(s) ==
    IF utf16_read_length(s[1]) = 1 THEN s[1]
    ELSE Shl(s[1] - \hd800, 10) + (s[2] - \hdc00)

\* s holds the values of c[0], c[1]
utf16_decode(s) ==
    IF utf16_read_length(s[1]) = 1 THEN s[1]
    ELSE Shl(s[1] - \hd800, 10) + (s[2] - \hdc00) + \h10000

-----------------------------------------------------------------------------
(* utf_traits<utf32> *)

utf32_read_length(c) == 1

utf32_write_length(c) ==
    IF ULess(c, \hd800) THEN 1
    ELSE IF ULess(c, \he000) THEN 0
    ELSE IF ULess(c, \h110000) THEN 1
    ELSE 0

utf32_validate(run) == Len(run) = 1

utf32_encode(c) == <<c>>

utf32_decode(s) == s[1]

-----------------------------------------------------------------------------
(* utf_traits<E>, selected by E *)

read_length(E, c) ==
    CASE E = "utf8"  -> utf8_read_length(c)
      [] E = "utf16" -> utf16_read_length(c)
      [] E = "utf32" -> utf32_read_length(c)

write_length(E, c) ==
    CASE E = "utf8"  -> utf8_write_length(c)
      [] E = "utf16" -> utf16_write_length(c)
      [] E = "utf32" -> utf32_write_length(c)

traits_validate(E, run) ==
    CASE E = "utf8"  -> utf8_validate(run)
      [] E = "utf16" -> utf16_validate(run)
      [] E = "utf32" -> utf32_validate(run)

decode(E, s) ==
    CASE E = "utf8"  -> utf8_decode(s)
      [] E = "utf16" -> utf16_decode(s)
      [] E = "utf32" -> utf32_decode(s)

encode(E, c) ==
    CASE E = "utf8"  -> utf8_encode(c)
      [] E = "utf16" -> utf16_encode(c)
      [] E = "utf32" -> utf32_encode(c)

\* utf8 encode with write_length(c) = 0 runs "for (i = 0; i != 1; --i)
\* res[i-1] = ..." off the array: undefined behaviour, modelled as a crash
encode_crashes(E, c) == E = "utf8" /\ utf8_write_length(c) = 0

\* a code unit as the traits of E see it when read through const codeunit_type*
AsUnit(E, u, signed) == IF E = "utf8" THEN AsChar(u, signed) ELSE u

-----------------------------------------------------------------------------
(* The Unicode Standard's definitions, against which the code is judged *)

InRange(x, lo, hi) == lo <= x /\ x <= hi

\* a Unicode scalar value
IsScalar(c) == InRange(c, 0, \hD7FF) \/ InRange(c, \hE000, \h10FFFF)

\* the well-formed UTF-8 byte sequences (Unicode Standard, table 3-7): the length
\* of the one starting at w[i], 0 when there is none
RefLen8(w, i) ==
    LET n     == Len(w)
        b1    == w[i]
        b2    == IF i + 1 <= n THEN w[i + 1] ELSE -1
        b3    == IF i + 2 <= n THEN w[i + 2] ELSE -1
        b4    == IF i + 3 <= n THEN w[i + 3] ELSE -1
        t(b)  == InRange(b, \h80, \hBF)
    IN  CASE InRange(b1, \h00, \h7F) -> 1
          [] InRange(b1, \hC2, \hDF) -> IF t(b2) THEN 2 ELSE 0
          [] b1 = \hE0 -> IF InRange(b2, \hA0, \hBF) /\ t(b3) THEN 3 ELSE 0
          [] InRange(b1, \hE1, \hEC) \/ InRange(b1, \hEE, \hEF) ->
                IF t(b2) /\ t(b3) THEN 3 ELSE 0
          [] b1 = \hED -> IF InRange(b2, \h80, \h9F) /\ t(b3) THEN 3 ELSE 0
          [] b1 = \hF0 -> IF InRange(b2, \h90, \hBF) /\ t(b3) /\ t(b4) THEN 4 ELSE 0
          [] InRange(b1, \hF1, \hF3) -> IF t(b2) /\ t(b3) /\ t(b4) THEN 4 ELSE 0
          [] b1 = \hF4 -> IF InRange(b2, \h80, \h8F) /\ t(b3) /\ t(b4) THEN 4 ELSE 0
          [] OTHER -> 0

RefLen16(w, i) ==
    LET u1 == w[i]
        u2 == IF i + 1 <= Len(w) THEN w[i + 1] ELSE -1
    IN  CASE ~InRange(u1, \hD800, \hDFFF) -> 1
          [] InRange(u1, \hD800, \hDBFF) /\ InRange(u2, \hDC00, \hDFFF) -> 2
          [] OTHER -> 0

RefLen32(w, i) == IF IsScalar(w[i]) THEN 1 ELSE 0

RefLen(E, w, i) ==
    CASE E = "utf8"  -> RefLen8(w, i)
      [] E = "utf16" -> RefLen16(w, i)
      [] E = "utf32" -> RefLen32(w, i)

\* the scalar value of the well-formed sequence of n units at w[i]
RefValue(E, w, i, n) ==
    CASE E = "utf8" /\ n = 1 -> w[i]
      [] E = "utf8" /\ n = 2 -> (w[i] % 32) * 64 + (w[i + 1] % 64)
      [] E = "utf8" /\ n = 3 ->
            (w[i] % 16) * 4096 + (w[i + 1] % 64) * 64 + (w[i + 2] % 64)
      [] E = "utf8" /\ n = 4 ->
            (w[i] % 8) * 262144 + (w[i + 1] % 64) * 4096
                + (w[i + 2] % 64) * 64 + (w[i + 3] % 64)
      [] E = "utf16" /\ n = 1 -> w[i]
      [] E = "utf16" /\ n = 2 ->
            65536 + (w[i] - \hD800) * 1024 + (w[i + 1] - \hDC00)
      [] E = "utf32" -> w[i]

\* the scalar values a window encodes, <<-1>> when it is not well-formed
RECURSIVE RefScalars(_, _, _)
RefScalars(E, w, i) ==
    IF i > Len(w) THEN <<>>
    ELSE LET n == RefLen(E, w, i)
         IN  IF n = 0 THEN <<-1>>
             ELSE LET rest == RefScalars(E, w, i + n)
                  IN  IF rest = <<-1>> THEN rest
                      ELSE <<RefValue(E, w, i, n)>> \o rest

WellFormed(E, w) == RefScalars(E, w, 1) /= <<-1>>

\* the code units the Unicode Standard assigns to a scalar value
RefEncode(E, c) ==
    CASE E = "utf8" /\ c < \h80 -> <<c>>
      [] E = "utf8" /\ InRange(c, \h80, \h7FF) ->
            <<\hC0 + (c \div 64), \h80 + (c % 64)>>
      [] E = "utf8" /\ InRange(c, \h800, \hFFFF) ->
            <<\hE0 + (c \div 4096), \h80 + ((c \div 64) % 64), \h80 + (c % 64)>>
      [] E = "utf8" /\ c >= \h10000 ->
            <<\hF0 + (c \div 262144), \h80 + ((c \div 4096) % 64),
              \h80 + ((c \div 64) % 64), \h80 + (c % 64)>>
      [] E = "utf16" /\ c < \h10000 -> <<c>>
      [] E = "utf16" /\ c >= \h10000 ->
            <<\hD800 + ((c - \h10000) \div 1024), \hDC00 + ((c - \h10000) % 1024)>>
      [] E = "utf32" -> <<c>>

-----------------------------------------------------------------------------
(* Bounds and the inputs drawn within them *)

MaxLen == 2       \* arbitrary windows have at most this many code units
MaxPieces == 2    \* composed windows have at most this many sequences
MaxOverrun == 1   \* iterations followed after a traversal has left its window
CpDelta == 40     \* codepoints this close to a boundary are tried

Max(a, b) == IF a >= b THEN a ELSE b
Min(a, b) == IF a <= b THEN a ELSE b

\* the codepoints at which an encoding changes length or validity
CpBoundaries ==
    {\h00, \h80, \h800, \h1000, \hD800, \hE000, \h10000, \h1F600, \h110000}

\* 32-bit inputs of the traits: around each boundary, and the ends of the range
\* (negative numbers are the values from 2^31 up, see the head of the module)
CpInputs ==
    {b + d : b \in CpBoundaries, d \in (-CpDelta)..CpDelta}
        \cup {2147483647, -2147483647 - 1}

\* scalar values composed into well-formed windows: one or two of each length
SampleCps == {\h41, \h80, \h800, \hFFFF, \h10000, \h10FFFF}

\* code units of arbitrary windows
Units(E) ==
    CASE E = "utf8"  -> {\h41, \h80, \hBF, \hC1, \hC2, \hE0, \hF0, \hF8}
      [] E = "utf16" -> {\h41, \hD7FF, \hD800, \hDBFF, \hDC00, \hDFFF, \hE000}
      [] E = "utf32" -> {\h41, \hD7FF, \hD800, \hDFFF, \hE000, \h10FFFF, \h110000, -1}

\* ill-formed sequences composed into windows
Malformed(E) ==
    CASE E = "utf8"  ->
            { <<\hC0, \h80>>, <<\hED, \hA0, \h80>>, <<\hF4, \h90, \h80, \h80>>,
              <<\hF0, \h90>> }
      [] E = "utf16" -> { <<\hD800>>, <<\hDC00>>, <<\hD800, \h41>>, <<\hDBFF, \hDBFF>> }
      [] E = "utf32" -> { <<\hD800>>, <<\hDFFF>>, <<\h110000>>, <<-1>> }

Pieces(E) == {RefEncode(E, c) : c \in SampleCps} \cup Malformed(E)

RECURSIVE Concats(_, _)
Concats(S, n) ==
    IF n = 0 THEN {<<>>}
    ELSE LET P == Concats(S, n - 1) IN P \cup {p \o s : p \in P, s \in S}

\* the codepoints whose single-codepoint windows are tried in every encoding
BoundaryCps == {\h7F, \h80, \h7FF, \h800, \hFFF, \h1000, \hD7FF, \hE000, \hFFFF,
                \h10000, \h1F600, \h10FFFF}

\* further windows tried as they are
Cases(E) ==
    {RefEncode(E, c) : c \in BoundaryCps} \cup
    ( IF E = "utf8"
      THEN { <<\h41, \hC3, \hA9, \hE2, \h82, \hAC>>,
             <<\hC1, \hBF>>, <<\hE0, \h80, \h80>>, <<\hE0, \h9F, \hBF>>,
             <<\hF0, \h80, \h80, \h80>>, <<\hF0, \h8F, \hBF, \hBF>>,
             <<\hED, \hBF, \hBF>>, <<\hF7, \hBF, \hBF, \hBF>>,
             <<\hE2, \h82>>, <<\hF0, \h9F, \h98>>, <<\hFF>> }
      ELSE {} )

Windows(E) ==
    UNION {[1..n -> Units(E)] : n \in 0..MaxLen}
        \cup Concats(Pieces(E), MaxPieces)
        \cup Cases(E)

\* what a read past the end of the window may yield
OobUnits(E) ==
    CASE E = "utf8"  -> {\h41, \hBF}
      [] E = "utf16" -> {\h41, \hDC00}
      [] E = "utf32" -> {\h41, \hD800}

-----------------------------------------------------------------------------
(* The traits applied to one codepoint: write_length, encode, decode *)

ViewOff ==
    /\ enc = "utf8" /\ buf = <<>> /\ op = "none" /\ edest = "utf8" /\ pc = "off"
    /\ cur = 0 /\ iters = 0 /\ acc = 0 /\ out = <<>> /\ result = "none"
    /\ maxRead = 0 /\ ub = FALSE /\ src = <<>> /\ back = FALSE /\ counted = -1

InitTraits ==
    /\ charSigned \in BOOLEAN
    /\ cp \in CpInputs
    /\ tE \in Encodings
    /\ tpc = "start" /\ tlen = 0 /\ tunits = <<>> /\ tdec = 0
    /\ ViewOff

TraitWriteLength ==
    /\ tpc = "start"
    /\ tlen' = write_length(tE, cp)
    /\ tpc' = "measured"
    /\ UNCHANGED <<charSigned, cp, tE, tunits, tdec, viewVars>>

TraitEncode ==
    /\ tpc = "measured"
    /\ IF encode_crashes(tE, cp)
       THEN tpc' = "crashed" /\ UNCHANGED tunits
       ELSE tpc' = "encoded" /\ tunits' = encode(tE, cp)
    /\ UNCHANGED <<charSigned, cp, tE, tlen, tdec, viewVars>>

TraitDecode ==
    /\ tpc = "encoded"
    /\ tdec' = decode(tE, [i \in 1..Len(tunits) |-> AsUnit(tE, tunits[i], charSigned)])
    /\ tpc' = "decoded"
    /\ UNCHANGED <<charSigned, cp, tE, tlen, tunits, viewVars>>

NextTraits == TraitWriteLength \/ TraitEncode \/ TraitDecode

SpecTraits == InitTraits /\ [][NextTraits]_vars

-----------------------------------------------------------------------------
(* stringview<E> *)

TraitsOff ==
    cp = 0 /\ tE = "utf8" /\ tpc = "off" /\ tlen = 0 /\ tunits = <<>> /\ tdec = 0

\* stringview(first, last)
Init ==
    /\ charSigned \in BOOLEAN
    /\ enc \in Encodings
    /\ buf \in Windows(enc)
    /\ op = "none" /\ edest = enc /\ pc = "idle"
    /\ cur = 0 /\ iters = 0 /\ acc = 0 /\ out = <<>> /\ result = "none"
    /\ maxRead = 0 /\ ub = FALSE /\ src = <<>> /\ back = FALSE /\ counted = -1
    /\ TraitsOff

\* the code unit at offset i of the window, as the traits read it; v is what
\* the read yields when the offset lies outside the window
UnitAt(i, v) == AsUnit(enc, IF i < Len(buf) THEN buf[i + 1] ELSE v, charSigned)

\* what *cur may yield
LeadChoices == IF cur < Len(buf) THEN {buf[cur + 1]} ELSE OobUnits(enc)

\* what the reads of cur[1 .. len-1] may yield where they fall outside the
\* window: one value for each such position of the sequence
TailChoices(len) == [Max(2, Len(buf) - cur + 1)..len -> OobUnits(enc)]

\* the values of cur[0 .. len-1]
RunAt(lead, len, tail) ==
    [i \in 1..len |-> IF i = 1 THEN UnitAt(cur, lead) ELSE IF cur + i - 1 < Len(buf) THEN UnitAt(cur + i - 1, 0)
                      ELSE UnitAt(cur + i - 1, tail[i])]

\* a variant that takes a sequence with one unit missing as complete
TruncatedOffByOne(remaining, len) == remaining < len - 1

\* "last - it < len"
Truncated(remaining, len) == remaining < len

Reset ==
    /\ pc' = "loop" /\ cur' = 0 /\ iters' = 0 /\ out' = <<>> /\ result' = "none"
    /\ maxRead' = 0 /\ ub' = FALSE

BeginValidate ==
    /\ pc = "idle"
    /\ op' = "validate" /\ acc' = 0 /\ Reset
    /\ UNCHANGED <<charSigned, enc, buf, edest, src, back, counted, traitVars>>

\* one pass through the body of validate's loop
ValidateIter ==
    /\ pc = "loop" /\ op = "validate" /\ cur < Len(buf)
    /\ iters' = iters + 1
    /\ LET lead == buf[cur + 1]
           len  == read_length(enc, UnitAt(cur, lead))
       IN  IF Truncated(Len(buf) - cur, len)
           THEN /\ result' = FALSE /\ pc' = "done"
                /\ maxRead' = Max(maxRead, cur + 1)
                /\ UNCHANGED <<cur, ub>>
           ELSE \E tail \in TailChoices(len) :
                LET run == RunAt(lead, len, tail)
                IN  /\ maxRead' = Max(maxRead, cur + len)
                    /\ ub' = (ub \/ cur + len > Len(buf))
                    /\ IF ~traits_validate(enc, run)
                       THEN result' = FALSE /\ pc' = "done" /\ UNCHANGED cur
                       ELSE IF ~validate_codepoint(decode(enc, run))
                       THEN result' = FALSE /\ pc' = "done" /\ UNCHANGED cur
                       ELSE cur' = cur + len /\ UNCHANGED <<result, pc>>
    /\ UNCHANGED <<charSigned, enc, buf, op, edest, acc, out, src, back, counted,
                   traitVars>>

\* the loop of validate ends and control flows off the end of the function,
\* which has no return statement there: the value the caller sees is undefined
ValidateReturn ==
    /\ pc = "loop" /\ op = "validate" /\ cur >= Len(buf)
    /\ ub' = TRUE
    /\ \/ pc' = "done" /\ result' \in BOOLEAN
       \/ pc' = "crashed" /\ UNCHANGED result
    /\ UNCHANGED <<charSigned, enc, buf, op, edest, cur, iters, acc, out, maxRead,
                   src, back, counted, traitVars>>

BeginCodepoints ==
    /\ pc = "idle"
    /\ op' = "codepoints" /\ acc' = 0 /\ Reset
    /\ UNCHANGED <<charSigned, enc, buf, edest, src, back, counted, traitVars>>

CodepointsIter ==
    /\ pc = "loop" /\ op = "codepoints" /\ cur < Len(buf)
    /\ iters' = iters + 1
    /\ cur' = cur + read_length(enc, UnitAt(cur, buf[cur + 1]))
    /\ acc' = acc + 1
    /\ maxRead' = Max(maxRead, cur + 1)
    /\ UNCHANGED <<charSigned, enc, buf, op, edest, pc, out, result, ub, src, back,
                   counted, traitVars>>

CodepointsReturn ==
    /\ pc = "loop" /\ op = "codepoints" /\ cur >= Len(buf)
    /\ result' = acc /\ pc' = "done"
    /\ UNCHANGED <<charSigned, enc, buf, op, edest, cur, iters, acc, out, maxRead,
                   ub, src, back, counted, traitVars>>

BeginCodeunits ==
    /\ pc = "idle"
    /\ \E d \in Encodings : edest' = d
    /\ op' = "codeunits" /\ acc' = 0 /\ Reset
    /\ UNCHANGED <<charSigned, enc, buf, src, back, counted, traitVars>>

CodeunitsIter ==
    /\ pc = "loop" /\ op = "codeunits" /\ cur < Len(buf)
    /\ iters' = iters + 1
    /\ LET lead == buf[cur + 1]
           slen == read_length(enc, UnitAt(cur, lead))
       IN  \E tail \in TailChoices(slen) :
           LET c == decode(enc, RunAt(lead, slen, tail))
           IN  /\ cur' = cur + slen
               /\ acc' = acc + write_length(edest, c)
               /\ maxRead' = Max(maxRead, cur + slen)
               /\ ub' = (ub \/ cur + slen > Len(buf))
    /\ UNCHANGED <<charSigned, enc, buf, op, edest, pc, out, result, src, back,
                   counted, traitVars>>

CodeunitsReturn ==
    /\ pc = "loop" /\ op = "codeunits" /\ cur >= Len(buf)
    /\ result' = acc /\ pc' = "done"
    /\ UNCHANGED <<charSigned, enc, buf, op, edest, cur, iters, acc, out, maxRead,
                   ub, src, back, counted, traitVars>>

\* to<EDest> on the view whose codeunits<EDest>() has just been taken
BeginTo ==
    /\ pc = "done" /\ op = "codeunits"
    /\ counted' = result
    /\ op' = "to" /\ acc' = 0 /\ Reset
    /\ UNCHANGED <<charSigned, enc, buf, edest, src, back, traitVars>>

\* "cur != last"
ToContinues(c, n) == c /= n

\* one pass through the body of to's loop, and its increment
ToIter ==
    /\ pc = "loop" /\ op = "to" /\ ToContinues(cur, Len(buf))
    /\ iters < Len(buf) + MaxOverrun
    /\ iters' = iters + 1
    /\ \E lead \in LeadChoices :
       LET len == read_length(enc, UnitAt(cur, lead))
       IN  \E tail \in TailChoices(len) :
           LET c == decode(enc, RunAt(lead, len, tail))
           IN  /\ maxRead' = Max(maxRead, cur + len)
               /\ IF encode_crashes(edest, c)
                  THEN pc' = "crashed" /\ ub' = TRUE /\ UNCHANGED <<out, cur>>
                  ELSE /\ out' = out \o encode(edest, c)
                       /\ cur' = cur + len
                       /\ ub' = (ub \/ cur + len > Len(buf))
                       /\ UNCHANGED pc
    /\ UNCHANGED <<charSigned, enc, buf, op, edest, acc, result, src, back, counted,
                   traitVars>>

ToReturn ==
    /\ pc = "loop" /\ op = "to" /\ ~ToContinues(cur, Len(buf))
    /\ result' = Len(out) /\ pc' = "done"
    /\ UNCHANGED <<charSigned, enc, buf, op, edest, cur, iters, acc, out, maxRead,
                   ub, src, back, counted, traitVars>>

\* a stringview<EDest> over the units to<EDest> wrote, and to<E> on it
Retranscode ==
    /\ pc = "done" /\ op = "to" /\ ~back
    /\ src' = buf /\ buf' = out /\ enc' = edest /\ edest' = enc /\ back' = TRUE
    /\ acc' = 0 /\ Reset
    /\ UNCHANGED <<charSigned, op, counted, traitVars>>

Next ==
    \/ BeginValidate \/ ValidateIter \/ ValidateReturn
    \/ BeginCodepoints \/ CodepointsIter \/ CodepointsReturn
    \/ BeginCodeunits \/ CodeunitsIter \/ CodeunitsReturn
    \/ BeginTo \/ ToIter \/ ToReturn \/ Retranscode

Spec == Init /\ [][Next]_vars

-----------------------------------------------------------------------------
(* Properties *)

Returned == pc \in {"done", "crashed"}

TheExample == <<\h41, \hC3, \hA9, \hE2, \h82, \hAC>>

\* C1: validate() returns true for every well-formed window, in each encoding.
C1_ValidateAcceptsWellFormed ==
    (op = "validate" /\ Returned /\ WellFormed(enc, buf))
        => (pc = "done" /\ result = TRUE)

\* C2: validate() returns false for every window that is not a concatenation
\* of well-formed encodings of Unicode scalar values.
C2_ValidateRejectsIllFormed ==
    (op = "validate" /\ Returned /\ ~WellFormed(enc, buf))
        => (pc = "done" /\ result = FALSE)

C2_Witness ==
    /\ op = "validate" /\ pc = "done" /\ result = FALSE
    /\ enc = "utf8" /\ buf = <<\h41, \hF0, \h90>>

\* C3: for every Unicode scalar value and every encoding, decoding the code
\* units encode wrote returns the scalar value (and encode does write them).
C3_RoundTrip ==
    IsScalar(cp) =>
        /\ tpc /= "crashed"
        /\ tpc = "decoded" => tdec = cp

C3_Witness ==
    tpc = "decoded" /\ tE = "utf8" /\ cp = \h7FF /\ tdec = \h7FF /\ charSigned

\* C4: on a well-formed window, codeunits<EDest>() equals the number of code
\* units to<EDest>() appends to the sink, for every E and EDest.
C4_LengthAgreement ==
    (op = "to" /\ ~back /\ WellFormed(enc, buf)) =>
        /\ pc /= "crashed"
        /\ pc = "done" => (counted = Len(out) /\ result = Len(out))

C4_Witness ==
    /\ op = "to" /\ ~back /\ pc = "done"
    /\ enc = "utf8" /\ edest = "utf16"
    /\ buf = <<\h41, \hF0, \h90, \h80, \h80>>
    /\ counted = 3 /\ Len(out) = 3

\* C5: on a well-formed window in A, to<B> followed by to<A> on its output
\* yields the same scalar values in B and, in A, the original code units.
C5_CrossRoundTrip ==
    (op = "to" /\ back /\ WellFormed(edest, src)) =>
        /\ pc /= "crashed"
        /\ RefScalars(enc, buf, 1) = RefScalars(edest, src, 1)
        /\ pc = "done" => out = src

C5_Witness ==
    /\ op = "to" /\ back /\ pc = "done"
    /\ enc = "utf16" /\ edest = "utf8"
    /\ src = TheExample /\ out = TheExample
    /\ buf = <<\h41, \hE9, \h20AC>>

\* C6: encode writes the code units the Unicode Standard assigns: in UTF-8
\* write_length(cp) bytes, the lead byte carrying the length marker over the
\* top payload bits and the continuation bytes 10xxxxxx carrying the 6-bit
\* groups, most significant first; in UTF-16 cp itself or the surrogate pair;
\* U+1F600 gives F0 9F 98 80 and D83D DE00, and both decode to 0x1F600.
C6_EncodeStandard ==
    (tpc \in {"encoded", "decoded"} /\ IsScalar(cp)) =>
        /\ tunits = RefEncode(tE, cp)
        /\ Len(tunits) = tlen
        /\ (cp = \h1F600 /\ tE = "utf8") => tunits = <<\hF0, \h9F, \h98, \h80>>
        /\ (cp = \h1F600 /\ tE = "utf16") => tunits = <<\hD83D, \hDE00>>
        /\ (cp = \h1F600 /\ tpc = "decoded") => tdec = \h1F600

C6_Witness ==
    /\ tpc = "decoded" /\ tE = "utf16" /\ cp = \h1F600
    /\ tunits = <<\hD83D, \hDE00>> /\ tdec = \h1F600

\* C7: on a well-formed window, codepoints() is the number of scalar values
\* encoded and equals codeunits<utf32>(); both are 3 on 41 C3 A9 E2 82 AC.
C7_CodepointCount ==
    (pc = "done" /\ WellFormed(enc, buf)
        /\ (op = "codepoints" \/ (op = "codeunits" /\ edest = "utf32"))) =>
        /\ result = Len(RefScalars(enc, buf, 1))
        /\ (enc = "utf8" /\ buf = TheExample) => result = 3

C7_Witness ==
    /\ pc = "done" /\ op = "codepoints"
    /\ enc = "utf8" /\ buf = TheExample /\ result = 3

\* write_length as the claim tabulates it; a negative c is a value from 2^31 up
RefWriteLength(E, c) ==
    IF InRange(c, \hD800, \hDFFF) \/ c < 0 \/ c > \h10FFFF THEN 0
    ELSE CASE E = "utf8"  -> IF c <= \h7F THEN 1
                             ELSE IF c < \h800 THEN 2
                             ELSE IF c < \h10000 THEN 3
                             ELSE 4
           [] E = "utf16" -> IF c >= \h10000 THEN 2 ELSE 1
           [] E = "utf32" -> 1

\* C8: write_length(cp) is 0 exactly when cp is a surrogate or exceeds 0x10FFFF,
\* that is exactly when validate_codepoint(cp) is false; otherwise it is the
\* encoding's length for cp.
C8_WriteLength ==
    tpc \in {"measured", "encoded", "decoded", "crashed"} =>
        /\ tlen = RefWriteLength(tE, cp)
        /\ tlen = 0 <=> ~validate_codepoint(cp)

C8_Witness ==
    tpc = "measured" /\ tE = "utf16" /\ cp = \hDFFF /\ tlen = 0

Scans == {"validate", "codepoints", "codeunits", "to"}

\* C9 as claimed: each of the four scans, on every window whatever its
\* contents, runs at most last - first iterations.
C9_EveryScanBounded ==
    op \in Scans => iters <= Len(buf)

\* C9 as amended: validate(), codepoints() and codeunits<EDest>() run at most
\* last - first iterations on every window, each iteration moving the cursor
\* forward; to<EDest>() does so on every well-formed window, where it also
\* ends with the cursor on last.
C9_BoundedScans ==
    (op \in {"validate", "codepoints", "codeunits"}
        \/ (op = "to" /\ WellFormed(enc, buf))) =>
        /\ iters <= Len(buf)
        /\ pc = "loop" => iters <= cur
        /\ op = "to" => (cur <= Len(buf) /\ pc /= "crashed")

C9_Witness ==
    /\ op = "to" /\ pc = "done" /\ ~back
    /\ enc = "utf8" /\ buf = TheExample /\ iters = 3 /\ cur = 6

\* C10: during validate(), on every window, the cursor stays within
\* [first, last] and no code unit at an offset >= last is read.
C10_ValidateInBounds ==
    op = "validate" => (cur <= Len(buf) /\ maxRead <= Len(buf))

C10_Witness ==
    /\ op = "validate" /\ pc = "done" /\ result = FALSE
    /\ enc = "utf8" /\ buf = <<\hE0, \hF0>> /\ maxRead = 1 /\ cur = 0

====
